---- MODULE Spec2Model ----
(***************************************************************************)
(* Model of TypeScriptWorkspace (lib/TypeScriptWorkspace.ts): the          *)
(* coordinator that maps open TypeScript text editors to their editor      *)
(* states, tracks the active state, mirrors it in the diagnostic status    *)
(* bar, and defers the auto-complete toggle behind a polling timer.        *)
(*                                                                         *)
(* Every state object is created by one editor-opened event, and the host  *)
(* reports an editor opened at most once, so a state object is identified  *)
(* by the identifier of its editor.  A handler that dereferences an        *)
(* undefined state raises a TypeError: the action keeps the assignments    *)
(* made before the failing statement and records the failure in last.      *)
(***************************************************************************)
EXTENDS Integers, Sequences, FiniteSets, TLC

MaxEditors == 2
MaxEvents == 5
maxIntervals == 50

EditorIds == 1..MaxEditors
Undefined == 0
NonTypeScript == -1
FocusTargets == {Undefined, NonTypeScript} \cup EditorIds

VARIABLES
    editors,               \* host: "new", "open" or "closed" per editor
    focused,               \* host: workspace.getActiveTextEditor()
    textEditorStates,      \* _textEditorStates: "absent", "undefined" or "state"
    states,                \* the TypeScriptTextEditorState object of each editor
    activeTextEditorState, \* _activeTextEditorState: Undefined or a state
    statusBar,             \* _statusBar and the fields of the status bar model
    timers,                \* the running setInterval timers
    disposed,              \* _disposables has been disposed
    events,                \* the number of host events delivered so far
    last                   \* the handler that ran last and what it did

vars == <<editors, focused, textEditorStates, states, activeTextEditorState,
          statusBar, timers, disposed, events, last>>

(***************************************************************************)
(* TypeScriptTextEditorState (lib/state/TypeScriptTextEditorState.ts)      *)
(***************************************************************************)
NewState ==
    [active |-> FALSE, disposed |-> FALSE, contentsChanging |-> FALSE,
     autoCompleteInProgress |-> FALSE, inError |-> FALSE, tooltip |-> "none"]

activate(s) == [s EXCEPT !.active = TRUE]

deactivate(s) == [s EXCEPT !.active = FALSE]

disposeState(s) == [s EXCEPT !.disposed = TRUE]

toggleAutoComplete(s) ==
    [s EXCEPT !.autoCompleteInProgress = ~s.autoCompleteInProgress]

confirmAutoCompleteItem(s) == [s EXCEPT !.autoCompleteInProgress = FALSE]

selectNextAutoCompleteItem(s) == s

selectPreviousAutoCompleteItem(s) == s

removeTooltip(s) == [s EXCEPT !.tooltip = "none"]

setTooltip(s, t) == [s EXCEPT !.tooltip = t]

updateFromContentChange(s, err) == [s EXCEPT !.inError = err]

updateFromCursorPosition(s, ends) ==
    [s EXCEPT !.autoCompleteInProgress = IF ends THEN FALSE ELSE @]

(***************************************************************************)
(* Bookkeeping of the handler that ran last                                *)
(***************************************************************************)
Call(m, id) == [m |-> m, st |-> id, disposed |-> states[id].disposed]

Event(op, ed) ==
    [op |-> op, ed |-> ed, threw |-> FALSE, calls |-> <<>>,
     before |-> Undefined, abortKeyBinding |-> FALSE,
     stopPropagation |-> FALSE, timerStarted |-> FALSE,
     fired |-> FALSE, tick |-> 0, flag |-> FALSE,
     position |-> FALSE, hasDiagnostic |-> FALSE, hasQuickInfo |-> FALSE,
     queries |-> <<>>, command |-> "none"]

(***************************************************************************)
(* TypeScriptWorkspace                                                     *)
(***************************************************************************)
Lookup(id) ==
    IF id \in EditorIds /\ textEditorStates[id] = "state" THEN id ELSE Undefined

NoStatusBar ==
    [created |-> FALSE, visible |-> "initial", inError |-> FALSE,
     constructed |-> 0]

getStatusBarAlwaysNew(sb) ==
    [sb EXCEPT !.created = TRUE, !.constructed = @ + 1]

getStatusBar(sb) ==
    IF sb.created
    THEN sb
    ELSE [sb EXCEPT !.created = TRUE, !.constructed = @ + 1]

updateStatusBar(sb, s) ==
    [getStatusBar(sb) EXCEPT !.inError = s.inError, !.visible = "shown"]

Init ==
    /\ editors = [e \in EditorIds |-> "new"]
    /\ focused = Undefined
    /\ textEditorStates = [e \in EditorIds |-> "absent"]
    /\ states = [e \in EditorIds |-> NewState]
    /\ activeTextEditorState = Undefined
    /\ statusBar = NoStatusBar
    /\ timers = <<>>
    /\ disposed = FALSE
    /\ events = 0
    /\ last = Event("constructor", Undefined)

dispose ==
    /\ ~disposed
    /\ disposed' = TRUE
    /\ last' = Event("dispose", Undefined)
    /\ UNCHANGED <<editors, focused, textEditorStates, states,
                   activeTextEditorState, statusBar, timers>>

storeEntrySkipped(e) == textEditorStates

storeEntry(e) == [textEditorStates EXCEPT ![e] = "state"]

onTypeScriptTextEditorOpened(e) ==
    /\ editors[e] = "new"
    /\ editors' = [editors EXCEPT ![e] = "open"]
    /\ states' = [states EXCEPT ![e] = [NewState EXCEPT !.contentsChanging = FALSE]]
    /\ textEditorStates' = storeEntry(e)
    /\ last' = Event("opened", e)
    /\ UNCHANGED <<focused, activeTextEditorState, statusBar, timers, disposed>>

deactivatePreviousSkipped(prev) == [states |-> states, calls |-> <<>>]

deactivatePrevious(prev) ==
    IF prev # Undefined
    THEN [states |-> [states EXCEPT ![prev] = deactivate(@)],
          calls |-> <<Call("deactivate", prev)>>]
    ELSE [states |-> states, calls |-> <<>>]

onTextEditorChanged(ed) ==
    /\ ed \in EditorIds => editors[ed] # "closed"
    /\ focused' = ed
    /\ LET prev == activeTextEditorState
           state == Lookup(ed)
           ev == [Event("focus", ed) EXCEPT !.before = prev]
           deact == deactivatePrevious(prev).states
           dcall == deactivatePrevious(prev).calls
       IN  IF ed \notin EditorIds
           THEN /\ statusBar' = [getStatusBar(statusBar) EXCEPT !.visible = "hidden"]
                /\ last' = ev
                /\ UNCHANGED <<states, activeTextEditorState>>
           ELSE /\ activeTextEditorState' = state
                /\ IF state = Undefined
                   THEN /\ states' = deact
                        /\ statusBar' = getStatusBar(statusBar)
                        /\ last' = [ev EXCEPT !.threw = TRUE, !.calls = dcall]
                   ELSE /\ states' = [deact EXCEPT ![state] = activate(@)]
                        /\ statusBar' = updateStatusBar(statusBar, deact[state])
                        /\ last' = [ev EXCEPT !.calls =
                                       dcall \o <<Call("activate", state)>>]
    /\ UNCHANGED <<editors, textEditorStates, timers, disposed>>

onTypeScriptTextEditorContentsChangingOfAll(e) ==
    /\ editors[e] = "open"
    /\ states' = [o \in EditorIds |-> [states[o] EXCEPT !.contentsChanging = TRUE]]
    /\ last' = Event("changing", e)
    /\ UNCHANGED <<editors, focused, textEditorStates, activeTextEditorState,
                   statusBar, timers, disposed>>

onTypeScriptTextEditorContentsChanging(e) ==
    /\ editors[e] = "open"
    /\ LET state == Lookup(e)
       IN  IF state = Undefined
           THEN /\ last' = [Event("changing", e) EXCEPT !.threw = TRUE]
                /\ UNCHANGED states
           ELSE /\ states' = [states EXCEPT ![state].contentsChanging = TRUE]
                /\ last' = Event("changing", e)
    /\ UNCHANGED <<editors, focused, textEditorStates, activeTextEditorState,
                   statusBar, timers, disposed>>

onTypeScriptTextEditorContentsChanged(e, err) ==
    /\ editors[e] = "open"
    /\ LET state == Lookup(e)
       IN  IF state = Undefined
           THEN /\ last' = [Event("changed", e) EXCEPT !.threw = TRUE]
                /\ UNCHANGED <<states, statusBar>>
           ELSE LET s == updateFromContentChange(
                             [states[state] EXCEPT !.contentsChanging = FALSE], err)
                IN  /\ states' = [states EXCEPT ![state] = s]
                    /\ statusBar' = updateStatusBar(statusBar, s)
                    /\ last' = [Event("changed", e) EXCEPT !.calls =
                                   <<Call("updateFromContentChange", state)>>]
    /\ UNCHANGED <<editors, focused, textEditorStates, activeTextEditorState,
                   timers, disposed>>

HoverInputs ==
    {<<FALSE, FALSE, FALSE>>} \cup
    {<<TRUE, d, i>> : d \in BOOLEAN, i \in BOOLEAN}

showTooltipQuickInfoFirst(s, diagnostic, info) ==
    IF info
    THEN [state |-> setTooltip(s, "quickInfo"), call |-> "setTooltip",
          queries |-> <<"quickInfo">>]
    ELSE IF diagnostic
    THEN [state |-> setTooltip(s, "diagnostic"), call |-> "setTooltip",
          queries |-> <<"quickInfo", "diagnostic">>]
    ELSE [state |-> removeTooltip(s), call |-> "removeTooltip",
          queries |-> <<"quickInfo", "diagnostic">>]

showTooltip(s, diagnostic, info) ==
    IF diagnostic
    THEN [state |-> setTooltip(s, "diagnostic"), call |-> "setTooltip",
          queries |-> <<"diagnostic">>]
    ELSE IF info
    THEN [state |-> setTooltip(s, "quickInfo"), call |-> "setTooltip",
          queries |-> <<"diagnostic", "quickInfo">>]
    ELSE [state |-> removeTooltip(s), call |-> "removeTooltip",
          queries |-> <<"diagnostic", "quickInfo">>]

ignoresHoverNever(s) == FALSE

ignoresHover(s) == s.autoCompleteInProgress

onMouseHoverPositionChanged(e, bufferPosition, diagnostic, info) ==
    /\ editors[e] = "open"
    /\ LET state == Lookup(e)
           ev == [Event("hover", e) EXCEPT !.position = bufferPosition,
                      !.hasDiagnostic = diagnostic, !.hasQuickInfo = info]
       IN  IF state = Undefined
           THEN /\ last' = [ev EXCEPT !.threw = TRUE]
                /\ UNCHANGED states
           ELSE IF ~bufferPosition
           THEN /\ states' = [states EXCEPT ![state] = removeTooltip(@)]
                /\ last' = [ev EXCEPT !.calls = <<Call("removeTooltip", state)>>]
           ELSE IF ignoresHover(states[state])
           THEN /\ last' = ev
                /\ UNCHANGED states
           ELSE LET shown == showTooltip(states[state], diagnostic, info)
                IN  /\ states' = [states EXCEPT ![state] = shown.state]
                    /\ last' = [ev EXCEPT !.queries = shown.queries,
                                   !.calls = <<Call(shown.call, state)>>]
    /\ UNCHANGED <<editors, focused, textEditorStates, activeTextEditorState,
                   statusBar, timers, disposed>>

onCursorPositionChanged(e, ends) ==
    /\ editors[e] = "open"
    /\ LET state == Lookup(e)
       IN  IF state = Undefined
           THEN /\ last' = [Event("cursor", e) EXCEPT !.threw = TRUE]
                /\ UNCHANGED states
           ELSE /\ states' = [states EXCEPT ![state] = updateFromCursorPosition(@, ends)]
                /\ last' = [Event("cursor", e) EXCEPT !.calls =
                               <<Call("updateFromCursorPosition", state)>>]
    /\ UNCHANGED <<editors, focused, textEditorStates, activeTextEditorState,
                   statusBar, timers, disposed>>

removeEntrySkipped(e) == textEditorStates

removeEntry(e) == [textEditorStates EXCEPT ![e] = "undefined"]

onTypeScriptTextEditorClosedClearsTimers(e) ==
    /\ editors[e] = "open"
    /\ editors' = [editors EXCEPT ![e] = "closed"]
    /\ states' = [states EXCEPT ![e] = disposeState(@)]
    /\ textEditorStates' = removeEntry(e)
    /\ timers' = SelectSeq(timers, LAMBDA t : t.state # e)
    /\ last' = [Event("closed", e) EXCEPT !.calls = <<Call("dispose", e)>>]
    /\ UNCHANGED <<focused, activeTextEditorState, statusBar, disposed>>

onTypeScriptTextEditorClosed(e) ==
    /\ editors[e] = "open"
    /\ editors' = [editors EXCEPT ![e] = "closed"]
    /\ LET state == Lookup(e)
       IN  IF state = Undefined
           THEN /\ last' = [Event("closed", e) EXCEPT !.threw = TRUE]
                /\ UNCHANGED <<states, textEditorStates>>
           ELSE /\ states' = [states EXCEPT ![state] = disposeState(@)]
                /\ textEditorStates' = removeEntry(e)
                /\ last' = [Event("closed", e) EXCEPT !.calls =
                               <<Call("dispose", state)>>]
    /\ UNCHANGED <<focused, activeTextEditorState, statusBar, timers, disposed>>

Commands == {"dismiss", "confirm", "select-next", "select-previous"}

Callback(command, s) ==
    CASE command = "dismiss" -> toggleAutoComplete(s)
      [] command = "confirm" -> confirmAutoCompleteItem(s)
      [] command = "select-next" -> selectNextAutoCompleteItem(s)
      [] command = "select-previous" -> selectPreviousAutoCompleteItem(s)

CallbackName(command) ==
    CASE command = "dismiss" -> "toggleAutoComplete"
      [] command = "confirm" -> "confirmAutoCompleteItem"
      [] command = "select-next" -> "selectNextAutoCompleteItem"
      [] command = "select-previous" -> "selectPreviousAutoCompleteItem"

guardNeverAborts(s) == FALSE

guardAborts(s) == ~s.autoCompleteInProgress

withAutoCompleteInProgress(command) ==
    /\ ~disposed
    /\ LET state == Lookup(focused)
           ev == [Event("command", focused) EXCEPT !.command = command]
       IN  IF state = Undefined
           THEN /\ last' = [ev EXCEPT !.threw = TRUE]
                /\ UNCHANGED states
           ELSE IF guardAborts(states[state])
           THEN /\ last' = [ev EXCEPT !.abortKeyBinding = TRUE]
                /\ UNCHANGED states
           ELSE /\ states' = [states EXCEPT ![state] = Callback(command, @)]
                /\ last' = [ev EXCEPT !.stopPropagation = TRUE,
                               !.calls = <<Call(CallbackName(command), state)>>]
    /\ UNCHANGED <<editors, focused, textEditorStates, activeTextEditorState,
                   statusBar, timers, disposed>>

NewTimer(state) == [state |-> state, intervalCount |-> 0, ticks |-> 0]

togglesAfterContentChange(s) == s.autoCompleteInProgress /\ ~s.contentsChanging

togglesImmediately(s) == s.autoCompleteInProgress

onToggleAutoComplete ==
    /\ ~disposed
    /\ LET state == Lookup(focused)
           ev == Event("toggle", focused)
       IN  IF focused = Undefined
           THEN /\ last' = [ev EXCEPT !.threw = TRUE]
                /\ UNCHANGED <<states, timers>>
           ELSE IF focused = NonTypeScript
           THEN /\ last' = [ev EXCEPT !.abortKeyBinding = TRUE]
                /\ UNCHANGED <<states, timers>>
           ELSE IF state = Undefined
           THEN /\ last' = [ev EXCEPT !.stopPropagation = TRUE, !.threw = TRUE]
                /\ UNCHANGED <<states, timers>>
           ELSE IF togglesImmediately(states[state])
           THEN /\ states' = [states EXCEPT ![state] = toggleAutoComplete(@)]
                /\ last' = [ev EXCEPT !.stopPropagation = TRUE,
                               !.calls = <<Call("toggleAutoComplete", state)>>]
                /\ UNCHANGED timers
           ELSE /\ timers' = Append(timers, NewTimer(state))
                /\ last' = [ev EXCEPT !.stopPropagation = TRUE,
                               !.timerStarted = TRUE]
                /\ UNCHANGED states
    /\ UNCHANGED <<editors, focused, textEditorStates, activeTextEditorState,
                   statusBar, disposed>>

RemoveSkipped(seq, i) == seq

Remove(seq, i) == SubSeq(seq, 1, i - 1) \o SubSeq(seq, i + 1, Len(seq))

ExpiredAtOnce(t) == t.intervalCount >= 0

Expired(t) == t.intervalCount > maxIntervals

executeAfterContentChange(i) ==
    /\ i \in 1..Len(timers)
    /\ LET t == timers[i]
           flag == states[t.state].contentsChanging
           ev == [Event("tick", t.state) EXCEPT !.tick = t.ticks + 1,
                      !.flag = flag]
       IN  IF ~flag \/ Expired(t)
           THEN /\ states' = [states EXCEPT ![t.state] =
                       [toggleAutoComplete(@) EXCEPT !.contentsChanging = FALSE]]
                /\ timers' = Remove(timers, i)
                /\ last' = [ev EXCEPT !.fired = TRUE,
                               !.calls = <<Call("toggleAutoComplete", t.state)>>]
           ELSE /\ timers' = [timers EXCEPT ![i] =
                       [@ EXCEPT !.intervalCount = @ + 1, !.ticks = @ + 1]]
                /\ last' = ev
                /\ UNCHANGED states
    /\ UNCHANGED <<editors, focused, textEditorStates, activeTextEditorState,
                   statusBar, disposed>>

HostEvent ==
    \/ dispose
    \/ \E e \in EditorIds : onTypeScriptTextEditorOpened(e)
    \/ \E ed \in FocusTargets : onTextEditorChanged(ed)
    \/ \E e \in EditorIds : onTypeScriptTextEditorContentsChanging(e)
    \/ \E e \in EditorIds, err \in BOOLEAN :
           onTypeScriptTextEditorContentsChanged(e, err)
    \/ \E e \in EditorIds, h \in HoverInputs :
           onMouseHoverPositionChanged(e, h[1], h[2], h[3])
    \/ \E e \in EditorIds, ends \in BOOLEAN : onCursorPositionChanged(e, ends)
    \/ \E e \in EditorIds : onTypeScriptTextEditorClosed(e)
    \/ \E command \in Commands : withAutoCompleteInProgress(command)
    \/ onToggleAutoComplete

TimerTick == \E i \in 1..Len(timers) : executeAfterContentChange(i)

Next ==
    \/ /\ events < MaxEvents
       /\ events' = events + 1
       /\ HostEvent
    \/ /\ TimerTick
       /\ UNCHANGED events

Spec == Init /\ [][Next]_vars

\* setInterval keeps calling the callback of a timer that is not cleared.
FairSpec == Spec /\ WF_vars(TimerTick /\ UNCHANGED events)
(***************************************************************************)
(* Properties                                                              *)
(***************************************************************************)
ActiveStates == {e \in EditorIds : states[e].active}

CallIndex(m) == {i \in DOMAIN last.calls : last.calls[i].m = m}

\* C1: at most one editor state is marked active, and a focus change that
\* activates a state has called deactivate on the previously active state
\* (if there was one) before it calls activate.
C1_AtMostOneActive ==
    /\ Cardinality(ActiveStates) <= 1
    /\ \A i \in CallIndex("activate") :
           (last.op = "focus" /\ last.before # Undefined) =>
               \E j \in CallIndex("deactivate") :
                   j < i /\ last.calls[j].st = last.before

C1_Witness ==
    /\ last.op = "focus"
    /\ last.before # Undefined
    /\ last.before # last.ed
    /\ CallIndex("activate") # {}
    /\ ActiveStates = {last.ed}

\* C2: after a focus-changed event whose editor is undefined or not a
\* TypeScript editor the status bar is hidden and no editor state is active.
C2_UnrecognizedFocusLeavesNoneActive ==
    (last.op = "focus" /\ last.ed \notin EditorIds) =>
        (statusBar.visible = "hidden" /\ ActiveStates = {})

\* C3: a focus-changed event never calls an operation of a state that has
\* been disposed by the closed event of its editor.
C3_FocusNeverUsesDisposedState ==
    last.op = "focus" => \A i \in DOMAIN last.calls : ~last.calls[i].disposed

\* C4: when the contents-changing flag was true on every tick of a timer,
\* the tick that invokes the deferred function is the 50th.
C4_FiresOnFiftiethTick ==
    (last.op = "tick" /\ last.fired /\ last.flag) => last.tick = 50

\* C5: the closed event of an editor disposes its state and leaves a lookup
\* of its identifier undefined, and changes neither the entry nor the state
\* of any other editor.
C5_ClosedRemovesEntry ==
    [][\A e \in EditorIds :
           (last'.op = "closed" /\ last'.ed = e) =>
               /\ states'[e].disposed
               /\ Lookup(e)' = Undefined
               /\ \A o \in EditorIds \ {e} :
                      /\ textEditorStates'[o] = textEditorStates[o]
                      /\ states'[o] = states[o]]_vars

C5_Witness ==
    /\ last.op = "closed"
    /\ ~last.threw
    /\ Lookup(last.ed) = Undefined
    /\ states[last.ed].disposed
    /\ \E o \in EditorIds : Lookup(o) = o

\* C6: a hover event with a position, on an editor without an auto-complete
\* session, sets the tooltip to the diagnostic when there is one (without
\* asking for quick-info), else to the quick-info when there is one, else
\* removes the tooltip.
C6_DiagnosticBeforeQuickInfo ==
    (/\ last.op = "hover"
     /\ ~last.threw
     /\ last.position
     /\ ~states[last.ed].autoCompleteInProgress) =>
        IF last.hasDiagnostic
        THEN /\ states[last.ed].tooltip = "diagnostic"
             /\ last.queries = <<"diagnostic">>
        ELSE IF last.hasQuickInfo
        THEN states[last.ed].tooltip = "quickInfo"
        ELSE states[last.ed].tooltip = "none"

C6_Witness ==
    /\ last.op = "hover"
    /\ last.position
    /\ last.hasDiagnostic
    /\ last.hasQuickInfo
    /\ ~states[last.ed].autoCompleteInProgress
    /\ states[last.ed].tooltip = "diagnostic"

\* C7: the toggle command on a TypeScript editor whose auto-complete session
\* is active ends the session in the handler itself and starts no timer,
\* whatever the contents-changing flag is.
C7_ToggleOffImmediately ==
    [][(/\ last'.op = "toggle"
        /\ Lookup(focused) # Undefined
        /\ states[focused].autoCompleteInProgress) =>
           /\ ~states'[focused].autoCompleteInProgress
           /\ ~last'.timerStarted
           /\ timers' = timers]_vars

C7_Witness ==
    /\ last.op = "toggle"
    /\ CallIndex("toggleAutoComplete") # {}
    /\ ~last.timerStarted
    /\ states[last.ed].contentsChanging
    /\ ~states[last.ed].autoCompleteInProgress

\* C8: once dispose() has run, an editor-opened or focus-changed event
\* changes neither the mapping, the active state nor the status bar.
C8_DisposeReleasesStreams ==
    [][(disposed /\ last'.op \in {"opened", "focus"}) =>
           UNCHANGED <<textEditorStates, activeTextEditorState, statusBar>>]_vars

\* C9: whenever the status bar is shown while an editor state is active,
\* its inError equals the inError of that active state.
C9_StatusBarMirrorsActiveState ==
    (statusBar.visible = "shown" /\ activeTextEditorState # Undefined) =>
        statusBar.inError = states[activeTextEditorState].inError

\* C10: a guarded command on an editor without a session aborts the key
\* binding, does not stop propagation, calls nothing and changes no editor
\* state; with a session it stops propagation and invokes its callback once,
\* on the state of the focused editor.
C10_GuardedCommands ==
    [][(last'.op = "command" /\ Lookup(focused) # Undefined) =>
           IF ~states[focused].autoCompleteInProgress
           THEN /\ last'.abortKeyBinding
                /\ ~last'.stopPropagation
                /\ last'.calls = <<>>
                /\ states' = states
           ELSE /\ ~last'.abortKeyBinding
                /\ last'.stopPropagation
                /\ Len(last'.calls) = 1
                /\ last'.calls[1].st = focused
                /\ last'.calls[1].m = CallbackName(last'.command)]_vars

C10_Witness ==
    /\ last.op = "command"
    /\ last.command = "confirm"
    /\ last.stopPropagation
    /\ CallIndex("confirmAutoCompleteItem") # {}
    /\ ~states[last.ed].autoCompleteInProgress
\* C11: when a deferred toggle has run, an auto-complete session is active
\* for the editor it was requested on.
C11_DeferredToggleTurnsOn ==
    (last.op = "tick" /\ last.fired) =>
        states[last.ed].autoCompleteInProgress

\* C12: a timer leaves the list of running timers only in a tick that
\* invokes its deferred function exactly once, a tick that does not invoke
\* it keeps every timer, only a deferred toggle adds a timer, and under fair
\* ticking the list of running timers becomes empty.
C12_TimersTerminate ==
    /\ [][/\ (last'.op = "tick" /\ last'.fired) =>
               /\ Len(last'.calls) = 1
               /\ \E i \in DOMAIN timers :
                      /\ timers[i].state = last'.ed
                      /\ timers' = SubSeq(timers, 1, i - 1)
                                    \o SubSeq(timers, i + 1, Len(timers))
          /\ (last'.op = "tick" /\ ~last'.fired) =>
               /\ last'.calls = <<>>
               /\ Len(timers') = Len(timers)
               /\ \A i \in DOMAIN timers : timers'[i].state = timers[i].state
          /\ last'.op # "tick" =>
               \/ timers' = timers
               \/ /\ last'.timerStarted
                  /\ timers' = Append(timers, NewTimer(last'.ed))]_vars
    /\ (timers # <<>>) ~> (timers = <<>>)

C12_Witness ==
    /\ last.op = "tick"
    /\ last.fired
    /\ last.flag
    /\ timers = <<>>

\* C13: a tick that finds the contents-changing flag false invokes the
\* deferred function, a tick that finds it true invokes it only when more
\* than maxIntervals ticks have been counted, and after the invocation the
\* flag is false.
C13_FiresWhenFlagClears ==
    last.op = "tick" =>
        /\ ~last.flag => last.fired
        /\ (last.fired /\ last.flag) => last.tick > maxIntervals
        /\ last.fired => ~states[last.ed].contentsChanging

C13_Witness ==
    /\ last.op = "tick"
    /\ last.fired
    /\ ~last.flag
    /\ last.tick > 1
\* C14: a hover event with a position on an editor whose auto-complete
\* session is in progress changes no editor state and asks for neither a
\* diagnostic nor quick-info; a hover event without a position removes the
\* tooltip, also while a session is in progress.
C14_HoverDuringAutoComplete ==
    [][\A e \in EditorIds :
           (last'.op = "hover" /\ last'.ed = e /\ Lookup(e) # Undefined) =>
               /\ (last'.position /\ states[e].autoCompleteInProgress) =>
                      /\ states' = states
                      /\ last'.queries = <<>>
                      /\ last'.calls = <<>>
               /\ ~last'.position =>
                      /\ states'[e].tooltip = "none"
                      /\ last'.queries = <<>>]_vars

C14_Witness ==
    /\ last.op = "hover"
    /\ last.position
    /\ last.hasDiagnostic
    /\ states[last.ed].autoCompleteInProgress
    /\ states[last.ed].tooltip = "quickInfo"

PerEditorEvents == {"changing", "changed", "hover", "cursor", "closed"}

\* C15: every editor that has been opened and not closed has a state that
\* is registered and not disposed, and no event of an open editor fails on
\* a missing state.
C15_OpenEditorsAreRegistered ==
    /\ \A e \in EditorIds :
           editors[e] = "open" => (Lookup(e) = e /\ ~states[e].disposed)
    /\ last.op \in PerEditorEvents => ~last.threw
    /\ (last.threw /\ last.ed \in EditorIds) => editors[last.ed] # "open"

C15_Witness ==
    /\ last.op = "cursor"
    /\ ~last.threw
    /\ \A e \in EditorIds : editors[e] = "open"
    /\ focused = last.ed

\* C16: the status bar is constructed at most once, and exactly once when
\* the coordinator holds one.
C16_StatusBarConstructedOnce ==
    statusBar.constructed = IF statusBar.created THEN 1 ELSE 0

C16_Witness ==
    /\ statusBar.constructed = 1
    /\ last.op = "changed"
    /\ activeTextEditorState # Undefined
    /\ focused = NonTypeScript

C18_ContentsChangingFlag ==
    [][\A e \in EditorIds :
           /\ (last'.op = "opened" /\ last'.ed = e) =>
                  ~states'[e].contentsChanging
           /\ (last'.op = "changing" /\ last'.ed = e /\ ~last'.threw) =>
                  states'[e].contentsChanging
           /\ (last'.op = "changed" /\ last'.ed = e /\ ~last'.threw) =>
                  ~states'[e].contentsChanging
           /\ (/\ states'[e].contentsChanging # states[e].contentsChanging
               /\ ~(last'.op \in {"changing", "changed"} /\ last'.ed = e)) =>
                  /\ last'.op = "tick"
                  /\ last'.ed = e
                  /\ ~states'[e].contentsChanging
           /\ (/\ last'.op \in {"changing", "changed", "hover", "cursor"}
               /\ last'.ed # e) =>
                  /\ states'[e].contentsChanging = states[e].contentsChanging
                  /\ states'[e].autoCompleteInProgress
                         = states[e].autoCompleteInProgress
                  /\ textEditorStates'[e] = textEditorStates[e]]_vars

C18_Witness ==
    /\ last.op = "changing"
    /\ states[last.ed].contentsChanging
    /\ \E o \in EditorIds \ {last.ed} :
           /\ editors[o] = "open"
           /\ ~states[o].contentsChanging
           /\ states[o].autoCompleteInProgress

\* C19: the closed event of an editor leaves the running timers as they
\* are, and a timer whose state has been disposed still invokes
\* toggleAutoComplete on that state.
C19_CloseKeepsTimer ==
    [][/\ last'.op = "closed" => timers' = timers
       /\ \A e \in EditorIds :
              (/\ last'.op = "tick"
               /\ last'.ed = e
               /\ last'.fired
               /\ states[e].disposed) =>
                  /\ last'.calls =
                         <<[m |-> "toggleAutoComplete", st |-> e,
                            disposed |-> TRUE]>>
                  /\ states'[e].autoCompleteInProgress
                         = ~states[e].autoCompleteInProgress]_vars

C19_Witness ==
    /\ last.op = "tick"
    /\ last.fired
    /\ states[last.ed].disposed
    /\ Lookup(last.ed) = Undefined
    /\ states[last.ed].autoCompleteInProgress
====
